---------------------------- MODULE Spec2Model ----------------------------
(***************************************************************************)
(* A state-machine model of chiavdf_fast_fallback.cpp: the portable        *)
(* fallback of the "chiavdf fast" C API.  Every entry point funnels into   *)
(* prove_one_weso_slow; the model follows that function statement by       *)
(* statement (program counters are named after source lines), with the     *)
(* process-wide configuration, the once flag and the thread-local          *)
(* diagnostics as shared state.                                            *)
(*                                                                         *)
(* The chiavdf library itself (CreateDiscriminant, DeserializeForm,        *)
(* nudupl_form, PulmarkReducer, ApproximateParameters, GenerateWesolowski, *)
(* SerializeForm) is not part of this repository.  It is abstracted by a   *)
(* small finite group: a form is a residue class modulo |D| together with  *)
(* a flag telling whether the representation is reduced; squaring squares  *)
(* the class and leaves the representation unreduced.                      *)
(***************************************************************************)
EXTENDS Integers, Sequences, FiniteSets, TLC

VARIABLES
    tuner,                       \* the (deterministic) ApproximateParameters of this build
    build,                       \* how the build compiled the signed overflow of k * l
    init_once,                   \* std::once_flag: "fresh", "active" or "done"
    gmp_initialised,             \* effect of init_gmp()
    fe_round,                    \* per-thread floating point rounding mode
    bucket_memory_budget_bytes,  \* std::atomic<uint64_t>
    streaming_stats_enabled,     \* std::atomic<bool>
    last_streaming_parameters,   \* thread_local
    last_streaming_stats,        \* thread_local
    crashed,                     \* the process died (division by zero, wild write)
    pc,                          \* per thread: position in prove_one_weso_slow
    args,                        \* per thread: the arguments of the running call
    fr,                          \* per thread: the locals of the running call
    result,                      \* per thread: the ChiavdfByteArray returned
    events,                      \* per thread: what the running call has done so far
    got                          \* per thread: what the caller last got from
                                 \* chiavdf_get_last_streaming_parameters

vars == <<tuner, build, init_once, gmp_initialised, fe_round,
          bucket_memory_budget_bytes, streaming_stats_enabled,
          last_streaming_parameters, last_streaming_stats, crashed,
          pc, args, fr, result, events, got>>

---------------------------------------------------------------------------
(* The shapes of the values, field by field in the order of the source. *)

\* a pointer: null, or the bytes behind it
Pointer == [null : BOOLEAN, buf : Seq(Nat)]

\* a form: its class and whether its representation is reduced
Form == [cls : Nat, red : BOOLEAN]

\* the parameters of prove_one_weso_slow (lines 62-74)
Arguments ==
    [challenge_hash : Pointer, challenge_size : Nat, x_s : Pointer, x_s_size : Nat,
     y_ref_s : Pointer, y_ref_s_size : Nat, check_y_ref : BOOLEAN,
     discriminant_size_bits : Nat, num_iterations : Nat,
     progress_interval : Nat, progress_cb : {"null", "cb"}]

\* the locals of prove_one_weso_slow (lines 86-147)
Frame ==
    [D : Int, L : Int, x : Form, y : Form, d_bits : Nat, k : Int, l : Int, kl : Int,
     size_vec : Nat, intermediates : Seq(Form), cursor : Nat, i : Nat, proof : Form,
     y_serialized : Seq(Nat), proof_serialized : Seq(Nat)]

\* struct LastStreamingParameters (lines 35-40)
LastStreamingParametersType == [k : Nat, l : Nat, tuned : BOOLEAN, set : BOOLEAN]

\* struct LastStreamingStats (lines 44-51)
LastStreamingStatsType ==
    [set : BOOLEAN, checkpoint_total_ns : Nat, checkpoint_event_total_ns : Nat,
     finalize_total_ns : Nat, checkpoint_calls : Nat, bucket_updates : Nat]

\* struct ChiavdfByteArray (lines 23-26)
ChiavdfByteArray == [data : Pointer, length : Nat]

\* one thing a call did: the operation and a number that goes with it
Event == [op : STRING, n : Int]

\* the return value and the three output cells of a caller of
\* chiavdf_get_last_streaming_parameters (lines 184-195), and how it asked
GotType ==
    [asked : {"no", "null", "cells"}, ret : BOOLEAN,
     out_k : Nat, out_l : Nat, out_tuned : BOOLEAN]

\* what the build made of the undefined behaviour in the source
Build == [elide_kl_check : BOOLEAN]

---------------------------------------------------------------------------
(* Bounds of the model. *)

\* largest iteration count a call is given
MaxT == 3
\* largest progress interval a call is given
MaxP == 2
\* number of bytes of a serialized form
FormSize == 3
\* number of values of one byte
ByteBase == 4
\* the discriminant size a valid call asks for
DBits == 4

\* threads of the process
Threads == {1, 2}
\* threads that call the proving entry points
Provers == {1}

---------------------------------------------------------------------------
(* Pointers and byte buffers. *)

NULLPTR == [null |-> TRUE, buf |-> <<>>]

Ptr(b) == [null |-> FALSE, buf |-> b]

\* the first n bytes behind a pointer
Bytes(p, n) == SubSeq(p.buf, 1, n)

INT_MAX == 2147483647

RECURSIVE Pow2(_)
Pow2(n) == IF n = 0 THEN 1 ELSE 2 * Pow2(n - 1)

RECURSIVE SumSeq(_)
SumSeq(s) == IF s = <<>> THEN 0 ELSE Head(s) + SumSeq(Tail(s))

Abs(n) == IF n < 0 THEN -n ELSE n

---------------------------------------------------------------------------
(* The group primitives of the chiavdf library, abstracted. *)

\* a default-constructed form (all coefficients zero): not a group element
DefaultForm == [cls |-> 0, red |-> FALSE]

\* CreateDiscriminant: a negative integer of exactly `bits` bits, derived
\* deterministically from the challenge bytes
CreateDiscriminant(seed, bits) ==
    -(Pow2(bits - 1) + ((2 * SumSeq(seed) + 1) % Pow2(bits - 1)))

\* integer::num_bits
RECURSIVE NumBits(_)
NumBits(n) == IF Abs(n) = 0 THEN 0 ELSE 1 + NumBits(Abs(n) \div 2)

\* root(n, 4): the floor of the fourth root
Root4(n) == CHOOSE r \in 0..n : r * r * r * r <= n /\ (r + 1) * (r + 1) * (r + 1) * (r + 1) > n

\* the base-ByteBase digits of n, most significant first, on `len` bytes
RECURSIVE Digits(_, _)
Digits(n, len) ==
    IF len = 0 THEN <<>> ELSE Append(Digits(n \div ByteBase, len - 1), n % ByteBase)

RECURSIVE Undigits(_)
Undigits(s) ==
    IF s = <<>> THEN 0 ELSE Undigits(SubSeq(s, 1, Len(s) - 1)) * ByteBase + s[Len(s)]

\* SerializeForm: one flag byte (0 for a reduced form) and the class
SerializeForm(f, d_bits) ==
    <<IF f.red THEN 0 ELSE 1>> \o Digits(f.cls, FormSize - 1)

\* a faulty variant of Decodable: any well-sized encoding is accepted
DecodableAnyValue(D, bytes) == Len(bytes) = FormSize /\ bytes[1] = 0

\* whether DeserializeForm accepts the bytes (it throws otherwise)
Decodable(D, bytes) ==
    /\ Len(bytes) = FormSize
    /\ bytes[1] = 0
    /\ Undigits(Tail(bytes)) \in 1..(Abs(D) - 1)

\* DeserializeForm on bytes it accepts
DeserializeForm(D, bytes) == [cls |-> Undigits(Tail(bytes)), red |-> TRUE]

\* form::from_abd: a copy built from the coefficients
FromAbd(f, D) == [cls |-> f.cls, red |-> f.red]

\* nudupl_form: squares the class; the result is in general not reduced
NuduplForm(f, D, L) == [cls |-> (f.cls * f.cls) % Abs(D), red |-> FALSE]

\* a faulty variant of Reduce: the reducer leaves the form as it is
ReduceSkipped(f) == f

\* PulmarkReducer::reduce: same class, reduced representation
Reduce(f) == [cls |-> f.cls, red |-> TRUE]

RECURSIVE WeightedSum(_, _)
WeightedSum(forms, n) ==
    IF n = 0 THEN 0 ELSE WeightedSum(forms, n - 1) + n * forms[n].cls

\* GenerateWesolowski: a deterministic function of exactly its arguments
\* (y, x, D, the checkpoints, the iteration count, k and l), reduced
GenerateWesolowski(y, x, D, intermediates, num_iterations, k, l) ==
    [cls |-> 1 + ((y.cls + 2 * x.cls + WeightedSum(intermediates, Len(intermediates))
                    + 3 * (k % 97) + 5 * (l % 89) + 7 * num_iterations) % (Abs(D) - 1)),
     red |-> TRUE]

---------------------------------------------------------------------------
(* Machine integers. *)

\* the product of two positive ints as a wrapping 32-bit multiplication
\* leaves it, computed on 16-bit limbs (no intermediate exceeds INT_MAX)
Mul32(a, b) ==
    LET a0 == a % 65536
        a1 == a \div 65536
        b0 == b % 65536
        b1 == b \div 65536
        p0 == (a0 % 256) * b0
        p1 == (a0 \div 256) * b0
        low == p0 + 256 * (p1 % 256)
        lo16 == low % 65536
        carry == (low \div 65536) + (p1 \div 256)
        hi16 == (carry + ((a1 * b0) % 65536) + ((a0 * b1) % 65536)) % 65536
    IN  IF hi16 >= 32768 THEN (hi16 - 65536) * 65536 + lo16 ELSE hi16 * 65536 + lo16

\* whether the mathematical product of two positive ints exceeds INT_MAX
\* (signed overflow: undefined behaviour)
MulOverflows(a, b) == a > INT_MAX \div b

\* i % static_cast<uint64_t>(kl), for i below 2^63 and kl # 0: a negative
\* kl converts to 2^64 + kl, which is larger than i
ModU64(i, kl) == IF kl > 0 THEN i % kl ELSE i

\* a faulty variant of SizeVec: the division rounds down
SizeVecFloor(num_iterations, kl) ==
    IF kl > 0 THEN num_iterations \div kl
    ELSE IF num_iterations - 1 >= -kl THEN 0 ELSE 1

\* (num_iterations + uint64(kl) - 1) / uint64(kl) in 64-bit unsigned
\* arithmetic, for kl # 0: with a negative kl the sum wraps around 2^64
\* exactly when num_iterations - 1 >= -kl
SizeVec(num_iterations, kl) ==
    IF kl > 0 THEN (num_iterations + kl - 1) \div kl
    ELSE IF num_iterations - 1 >= -kl THEN 0 ELSE 1

---------------------------------------------------------------------------
(* The parameter tuner (ApproximateParameters of the chiavdf library). *)

\* values the tuner is taken to write into l and k
TunerPairs ==
    { [k |-> 0, l |-> 0], [k |-> 1, l |-> 2], [k |-> 2, l |-> 2], [k |-> 3, l |-> -1],
      [k |-> 65536, l |-> 65536], [k |-> 46341, l |-> 46341] }

\* the tuner is a deterministic function of the iteration count
TunerFns ==
    { [T \in 1..MaxT |-> p] : p \in TunerPairs } \cup { [T \in 1..MaxT |-> [k |-> T, l |-> 1]] }

ClampToOne(v) == IF v <= 0 THEN 1 ELSE v

TunerMayOverflow(f) ==
    \E T \in DOMAIN f : MulOverflows(ClampToOne(f[T].k), ClampToOne(f[T].l))

---------------------------------------------------------------------------
(* The arguments callers pass. *)

Challenge == <<1>>

XGood == <<0>> \o Digits(2, FormSize - 1)

\* a well-sized encoding of a value that is no element of the group
XBad == <<0>> \o [j \in 1..(FormSize - 1) |-> ByteBase - 1]

ValidCores ==
    [challenge_hash : {Ptr(Challenge)}, challenge_size : {Len(Challenge)},
     x_s : {Ptr(XGood)}, x_s_size : {FormSize},
     discriminant_size_bits : {DBits}, num_iterations : 1..MaxT]

Corruptions(c) ==
    { [c EXCEPT !.challenge_hash = NULLPTR], [c EXCEPT !.challenge_size = 0],
      [c EXCEPT !.x_s = NULLPTR], [c EXCEPT !.x_s_size = 0],
      [c EXCEPT !.num_iterations = 0], [c EXCEPT !.discriminant_size_bits = 0],
      [c EXCEPT !.x_s_size = FormSize - 1], [c EXCEPT !.x_s = Ptr(XBad)] }

Cores == ValidCores \cup UNION { Corruptions(c) : c \in { v \in ValidCores : v.num_iterations = 1 } }

\* the element reached from f by n squarings, each followed by a reduction
RECURSIVE SquaredTimes(_, _, _)
SquaredTimes(f, D, n) ==
    IF n = 0 THEN f
    ELSE LET p == SquaredTimes(f, D, n - 1)
         IN  [cls |-> (p.cls * p.cls) % Abs(D), red |-> TRUE]

\* whether the four checks of lines 75-80 let the call through
InputsPresent(c) ==
    /\ ~c.challenge_hash.null /\ c.challenge_size # 0
    /\ ~c.x_s.null /\ c.x_s_size # 0
    /\ c.num_iterations # 0 /\ c.discriminant_size_bits # 0

DiscOf(c) == CreateDiscriminant(Bytes(c.challenge_hash, c.challenge_size), c.discriminant_size_bits)

InputDecodes(c) == InputsPresent(c) /\ Decodable(DiscOf(c), Bytes(c.x_s, c.x_s_size))

\* the canonical encoding of x squared num_iterations times
ExpectedY(c) ==
    IF InputDecodes(c)
    THEN SerializeForm(SquaredTimes(DeserializeForm(DiscOf(c), Bytes(c.x_s, c.x_s_size)),
                                    DiscOf(c), c.num_iterations), c.discriminant_size_bits)
    ELSE XGood

\* bytes b with the byte at position j changed
WrongAt(b, j) == [b EXCEPT ![j] = (@ + 1) % ByteBase]

\* the (pointer, size) pairs a streaming caller passes as reference
RefOptions(c) ==
    LET good == ExpectedY(c)
    IN  { <<NULLPTR, 0>>, <<NULLPTR, FormSize>>, <<Ptr(good), 0>>,
          <<Ptr(good), FormSize>>, <<Ptr(good), FormSize - 1>> }
        \cup { <<Ptr(WrongAt(good, j)), FormSize>> : j \in 1..FormSize }

\* the (interval, callback) pairs a caller with progress passes
ProgressOptions(c) ==
    IF InputDecodes(c)
    THEN ((0..MaxP) \X {"cb"}) \cup { <<0, "null">>, <<1, "null">> }
    ELSE { <<0, "null">>, <<1, "cb">> }

\* what a streaming caller with progress passes: every reference with one
\* live callback, and every progress option with the matching reference
RefAndProgressOptions(c) ==
    (RefOptions(c) \X { <<1, "cb">> })
    \cup ({ <<Ptr(ExpectedY(c)), FormSize>> } \X ProgressOptions(c))

MkArgs(c, ref, check, prog) ==
    [challenge_hash |-> c.challenge_hash, challenge_size |-> c.challenge_size,
     x_s |-> c.x_s, x_s_size |-> c.x_s_size,
     y_ref_s |-> ref[1], y_ref_s_size |-> ref[2], check_y_ref |-> check,
     discriminant_size_bits |-> c.discriminant_size_bits,
     num_iterations |-> c.num_iterations,
     progress_interval |-> prog[1], progress_cb |-> prog[2]]

NoArgs == MkArgs([challenge_hash |-> NULLPTR, challenge_size |-> 0, x_s |-> NULLPTR,
                  x_s_size |-> 0, discriminant_size_bits |-> 0, num_iterations |-> 0],
                 <<NULLPTR, 0>>, FALSE, <<0, "null">>)

---------------------------------------------------------------------------
(* State. *)

LastStreamingParameters == [k |-> 0, l |-> 0, tuned |-> FALSE, set |-> FALSE]

LastStreamingStats ==
    [set |-> FALSE, checkpoint_total_ns |-> 0, checkpoint_event_total_ns |-> 0,
     finalize_total_ns |-> 0, checkpoint_calls |-> 0, bucket_updates |-> 0]

empty_result == [data |-> NULLPTR, length |-> 0]

\* the locals of prove_one_weso_slow before any of them is assigned
NoFrame ==
    [D |-> 0, L |-> 0, x |-> DefaultForm, y |-> DefaultForm, d_bits |-> 0,
     k |-> 0, l |-> 0, kl |-> 0, size_vec |-> 0, intermediates |-> <<>>, cursor |-> 0,
     i |-> 0, proof |-> DefaultForm, y_serialized |-> <<>>, proof_serialized |-> <<>>]

\* a caller that has not asked for the last plan since its last proving call
NoGot == [asked |-> "no", ret |-> FALSE, out_k |-> 0, out_l |-> 0, out_tuned |-> FALSE]

\* the memory budgets callers set
Budgets == {0, 1}

Init ==
    /\ tuner \in TunerFns
    /\ build \in { [elide_kl_check |-> e] : e \in IF TunerMayOverflow(tuner) THEN BOOLEAN ELSE {FALSE} }
    /\ init_once = "fresh"
    /\ gmp_initialised = FALSE
    /\ fe_round = [t \in Threads |-> "FE_TONEAREST"]
    /\ bucket_memory_budget_bytes = 0
    /\ streaming_stats_enabled = FALSE
    /\ last_streaming_parameters = [t \in Threads |-> LastStreamingParameters]
    /\ last_streaming_stats = [t \in Threads |-> LastStreamingStats]
    /\ crashed = "no"
    /\ pc = [t \in Threads |-> "idle"]
    /\ args = [t \in Threads |-> NoArgs]
    /\ fr = [t \in Threads |-> NoFrame]
    /\ result = [t \in Threads |-> empty_result]
    /\ events = [t \in Threads |-> <<>>]
    /\ got = [t \in Threads |-> NoGot]

---------------------------------------------------------------------------
(* Helpers of the actions. *)

Running == crashed = "no"

Ev(op, n) == [op |-> op, n |-> n]

Step(t, next, frame, evs) ==
    /\ pc' = [pc EXCEPT ![t] = next]
    /\ fr' = [fr EXCEPT ![t] = frame]
    /\ events' = [events EXCEPT ![t] = @ \o evs]

\* return empty_result() (also what the catch-all handler of line 169 does)
ReturnEmpty(t, evs) ==
    /\ pc' = [pc EXCEPT ![t] = "returned"]
    /\ result' = [result EXCEPT ![t] = empty_result]
    /\ events' = [events EXCEPT ![t] = @ \o evs]
    /\ UNCHANGED fr

Globals == <<tuner, build, init_once, gmp_initialised, fe_round,
             bucket_memory_budget_bytes, streaming_stats_enabled, crashed>>

Diagnostics == <<last_streaming_parameters, last_streaming_stats>>

---------------------------------------------------------------------------
(* The entry points: each passes its arguments on to prove_one_weso_slow. *)

\* the call of prove_one_weso_slow with arguments a
Enter(t, a) ==
    /\ Running
    /\ pc' = [pc EXCEPT ![t] = "L75"]
    /\ args' = [args EXCEPT ![t] = a]
    /\ got' = [got EXCEPT ![t] = NoGot]
    /\ UNCHANGED <<Globals, Diagnostics, fr, result, events>>

\* lines 212-232
chiavdf_prove_one_weso_fast(t) ==
    /\ pc[t] = "idle"
    /\ \E c \in Cores : Enter(t, MkArgs(c, <<NULLPTR, 0>>, FALSE, <<0, "null">>))

\* lines 234-257
chiavdf_prove_one_weso_fast_with_progress(t) ==
    /\ pc[t] = "idle"
    /\ \E c \in Cores : \E prog \in ProgressOptions(c) :
           Enter(t, MkArgs(c, <<NULLPTR, 0>>, FALSE, prog))

\* lines 259-281
chiavdf_prove_one_weso_fast_streaming(t) ==
    /\ pc[t] = "idle"
    /\ \E c \in Cores : \E ref \in RefOptions(c) :
           Enter(t, MkArgs(c, ref, TRUE, <<0, "null">>))

\* lines 283-308
chiavdf_prove_one_weso_fast_streaming_with_progress(t) ==
    /\ pc[t] = "idle"
    /\ \E c \in Cores : \E rp \in RefAndProgressOptions(c) :
           Enter(t, MkArgs(c, rp[1], TRUE, rp[2]))

\* lines 310-332
chiavdf_prove_one_weso_fast_streaming_getblock_opt(t) ==
    /\ pc[t] = "idle"
    /\ \E c \in Cores : \E ref \in RefOptions(c) :
           Enter(t, MkArgs(c, ref, TRUE, <<0, "null">>))

\* lines 334-361
chiavdf_prove_one_weso_fast_streaming_getblock_opt_with_progress(t) ==
    /\ pc[t] = "idle"
    /\ \E c \in Cores : \E rp \in RefAndProgressOptions(c) :
           Enter(t, MkArgs(c, rp[1], TRUE, rp[2]))

---------------------------------------------------------------------------
(* prove_one_weso_slow, statement by statement. *)

\* a faulty variant of ArgumentsRejected: the size of the input element is not looked at
ArgumentsRejectedNoSize(a) ==
    \/ a.challenge_hash.null \/ a.challenge_size = 0 \/ a.x_s.null
    \/ a.num_iterations = 0 \/ a.discriminant_size_bits = 0

\* lines 75-80: the argument checks
ArgumentsRejected(a) ==
    \/ a.challenge_hash.null \/ a.challenge_size = 0 \/ a.x_s.null \/ a.x_s_size = 0
    \/ a.num_iterations = 0 \/ a.discriminant_size_bits = 0

\* a faulty variant of ValidateInput: the last plan is cleared on entry
ValidateInputClearsPlan(t) ==
    /\ Running
    /\ pc[t] = "L75"
    /\ IF ArgumentsRejected(args[t])
       THEN ReturnEmpty(t, <<>>)
       ELSE Step(t, "L83", fr[t], <<>>) /\ UNCHANGED result
    /\ last_streaming_parameters' =
           [last_streaming_parameters EXCEPT ![t] = LastStreamingParameters]
    /\ UNCHANGED <<Globals, last_streaming_stats, args, got>>

ValidateInput(t) ==
    /\ Running
    /\ pc[t] = "L75"
    /\ IF ArgumentsRejected(args[t])
       THEN ReturnEmpty(t, <<>>)
       ELSE Step(t, "L83", fr[t], <<>>) /\ UNCHANGED result
    /\ UNCHANGED <<Globals, Diagnostics, args, got>>

\* line 83: std::call_once.  The first caller runs init_chiavdf_runtime on
\* its own thread; a caller that finds the call active waits for its end; a
\* caller that finds it done goes on
CallOnce(t) ==
    /\ Running
    /\ pc[t] = "L83"
    /\ init_once # "active"
    /\ IF init_once = "done"
       THEN /\ UNCHANGED init_once
            /\ Step(t, "L85", fr[t], <<>>)
       ELSE /\ init_once' = "active"
            /\ Step(t, "L58", fr[t], <<>>)
    /\ UNCHANGED <<tuner, build, gmp_initialised, fe_round, bucket_memory_budget_bytes,
                   streaming_stats_enabled, crashed, Diagnostics, args, got, result>>

\* lines 57-60: init_gmp() and fesetround(FE_TOWARDZERO), on the thread that
\* runs the active call; the floating point environment is the thread's own
init_chiavdf_runtime(t) ==
    /\ Running
    /\ pc[t] = "L58"
    /\ gmp_initialised' = TRUE
    /\ fe_round' = [fe_round EXCEPT ![t] = "FE_TOWARDZERO"]
    /\ init_once' = "done"
    /\ Step(t, "L85", fr[t], <<Ev("init_chiavdf_runtime", 0)>>)
    /\ UNCHANGED <<tuner, build, bucket_memory_budget_bytes, streaming_stats_enabled,
                   crashed, Diagnostics, args, got, result>>

\* lines 85-86: the discriminant
Discriminant(t) ==
    /\ Running
    /\ pc[t] = "L85"
    /\ Step(t, "L87",
            [fr[t] EXCEPT !.D = CreateDiscriminant(Bytes(args[t].challenge_hash, args[t].challenge_size),
                                                   args[t].discriminant_size_bits)],
            <<Ev("CreateDiscriminant", 0)>>)
    /\ UNCHANGED <<Globals, Diagnostics, args, got, result>>

\* line 87: L = root(-D, 4)
FourthRoot(t) ==
    /\ Running
    /\ pc[t] = "L87"
    /\ Step(t, "L89", [fr[t] EXCEPT !.L = Root4(-fr[t].D)], <<Ev("root", 0)>>)
    /\ UNCHANGED <<Globals, Diagnostics, args, got, result>>

\* line 89: x = DeserializeForm(D, x_s, x_s_size); a throw lands in the
\* handler of line 169
Deserialize(t) ==
    /\ Running
    /\ pc[t] = "L89"
    /\ LET bytes == Bytes(args[t].x_s, args[t].x_s_size)
       IN  IF Decodable(fr[t].D, bytes)
           THEN /\ Step(t, "L91", [fr[t] EXCEPT !.x = DeserializeForm(fr[t].D, bytes)],
                        <<Ev("DeserializeForm", 0)>>)
                /\ UNCHANGED result
           ELSE ReturnEmpty(t, <<Ev("DeserializeForm", 0), Ev("catch", 0)>>)
    /\ UNCHANGED <<Globals, Diagnostics, args, got>>

\* lines 91-93: the running element y is a copy of x
CopyInput(t) ==
    /\ Running
    /\ pc[t] = "L91"
    /\ Step(t, "L95",
            [fr[t] EXCEPT !.y = FromAbd(fr[t].x, fr[t].D), !.d_bits = NumBits(fr[t].D)],
            <<>>)
    /\ UNCHANGED <<Globals, Diagnostics, args, got, result>>

\* a faulty variant of ApproximateParameters: the plan shrinks under a memory budget
ApproximateParametersBudgeted(T) ==
    IF bucket_memory_budget_bytes > 0 THEN [k |-> 1, l |-> 1] ELSE tuner[T]

\* line 97: what ApproximateParameters writes into l and k
ApproximateParameters(T) == tuner[T]

\* a faulty variant of ClampK: only a negative k is clamped
ClampKNegativeOnly(k) == IF k < 0 THEN 1 ELSE k

\* lines 98-103: the clamps
ClampK(k) == IF k <= 0 THEN 1 ELSE k

\* a faulty variant of ClampL: under a memory budget the plan falls back to
\* one block per segment, read when the tuner is done
ClampLBudgeted(l) == IF l <= 0 \/ bucket_memory_budget_bytes > 0 THEN 1 ELSE l

ClampL(l) == IF l <= 0 THEN 1 ELSE l

\* line 105: whether the guard kl <= 0 is evaluated on the wrapped product.
\* When k * l overflows the behaviour is undefined: a build either wraps and
\* tests, or has folded the test away (k >= 1 and l >= 1 "imply" kl >= 1).
GuardTests(k, l) == ~(MulOverflows(k, l) /\ build.elide_kl_check)

\* lines 95-107: the plan
Tune(t) ==
    /\ Running
    /\ pc[t] = "L95"
    /\ LET p == ApproximateParameters(args[t].num_iterations)
           k == ClampK(p.k)
           l == ClampL(p.l)
           kl == Mul32(k, l)
           f == [fr[t] EXCEPT !.k = k, !.l = l, !.kl = kl]
       IN  IF GuardTests(k, l) /\ kl <= 0
           THEN /\ pc' = [pc EXCEPT ![t] = "returned"]
                /\ result' = [result EXCEPT ![t] = empty_result]
                /\ fr' = [fr EXCEPT ![t] = f]
                /\ events' = [events EXCEPT ![t] = Append(@, Ev("ApproximateParameters", 0))]
           ELSE /\ Step(t, "L109", f, <<Ev("ApproximateParameters", 0)>>)
                /\ UNCHANGED result
    /\ UNCHANGED <<Globals, Diagnostics, args, got>>

\* a faulty variant of RecordPlan: the diagnostics are one object for all threads
RecordPlanShared(t) ==
    /\ Running
    /\ pc[t] = "L109"
    /\ last_streaming_parameters' =
           [u \in Threads |-> [k |-> fr[t].k, l |-> fr[t].l, tuned |-> FALSE, set |-> TRUE]]
    /\ last_streaming_stats' = [u \in Threads |-> LastStreamingStats]
    /\ Step(t, "L115", fr[t], <<>>)
    /\ UNCHANGED <<Globals, args, got, result>>

\* lines 109-113: the thread's diagnostics
RecordPlan(t) ==
    /\ Running
    /\ pc[t] = "L109"
    /\ last_streaming_parameters' =
           [last_streaming_parameters EXCEPT
               ![t] = [k |-> fr[t].k, l |-> fr[t].l, tuned |-> FALSE, set |-> TRUE]]
    /\ last_streaming_stats' = [last_streaming_stats EXCEPT ![t] = LastStreamingStats]
    /\ Step(t, "L115", fr[t], <<>>)
    /\ UNCHANGED <<Globals, args, got, result>>

\* lines 115-117: the checkpoint store; a zero kl divides by zero
Allocate(t) ==
    /\ Running
    /\ pc[t] = "L115"
    /\ IF fr[t].kl = 0
       THEN /\ crashed' = "division by zero"
            /\ UNCHANGED <<pc, fr, events>>
       ELSE /\ LET n == SizeVec(args[t].num_iterations, fr[t].kl)
               IN  Step(t, "L119",
                        [fr[t] EXCEPT !.size_vec = n,
                                      !.intermediates = [j \in 1..n |-> DefaultForm],
                                      !.cursor = 0, !.i = 0],
                        <<Ev("allocate", n)>>)
            /\ UNCHANGED crashed
    /\ UNCHANGED <<tuner, build, init_once, gmp_initialised, fe_round,
                   bucket_memory_budget_bytes, streaming_stats_enabled,
                   Diagnostics, args, got, result>>

\* a faulty variant of CheckpointDue: the checkpoint is taken at the end of a block
CheckpointDueLate(i, kl) == ModU64(i + 1, kl) = 0

\* line 120: whether iteration i records a checkpoint
CheckpointDue(i, kl) == ModU64(i, kl) = 0

\* lines 119-123: the loop test and the checkpoint; a write past the end of
\* the store is a wild write
LoopHead(t) ==
    /\ Running
    /\ pc[t] = "L119"
    /\ IF fr[t].i < args[t].num_iterations
       THEN IF CheckpointDue(fr[t].i, fr[t].kl)
            THEN IF fr[t].cursor < fr[t].size_vec
                 THEN /\ Step(t, "L125",
                              [fr[t] EXCEPT !.intermediates[fr[t].cursor + 1] = fr[t].y,
                                            !.cursor = @ + 1],
                              <<Ev("checkpoint", fr[t].cursor)>>)
                      /\ UNCHANGED crashed
                 ELSE /\ crashed' = "wild write"
                      /\ UNCHANGED <<pc, fr, events>>
            ELSE Step(t, "L125", fr[t], <<>>) /\ UNCHANGED crashed
       ELSE Step(t, "L136", fr[t], <<>>) /\ UNCHANGED crashed
    /\ UNCHANGED <<tuner, build, init_once, gmp_initialised, fe_round,
                   bucket_memory_budget_bytes, streaming_stats_enabled,
                   Diagnostics, args, got, result>>

\* line 125: nudupl_form(y, y, D, L)
Square(t) ==
    /\ Running
    /\ pc[t] = "L125"
    /\ Step(t, "L126", [fr[t] EXCEPT !.y = NuduplForm(fr[t].y, fr[t].D, fr[t].L)],
            <<Ev("nudupl_form", fr[t].i)>>)
    /\ UNCHANGED <<Globals, Diagnostics, args, got, result>>

\* line 126: reducer.reduce(y)
ReduceStep(t) ==
    /\ Running
    /\ pc[t] = "L126"
    /\ Step(t, "L128", [fr[t] EXCEPT !.y = Reduce(fr[t].y)], <<Ev("reduce", fr[t].i)>>)
    /\ UNCHANGED <<Globals, Diagnostics, args, got, result>>

\* a faulty variant of ProgressDue: the cadence is not looked at
ProgressDueEveryIteration(progress_cb, progress_interval, done, num_iterations) ==
    progress_cb # "null" /\ progress_interval # 0

\* a faulty variant of ProgressDue: no report for the final iteration as such
ProgressDueNoFinal(progress_cb, progress_interval, done, num_iterations) ==
    /\ progress_cb # "null" /\ progress_interval # 0
    /\ done % progress_interval = 0

\* lines 128-130: whether the callback is invoked after `done` squarings
ProgressDue(progress_cb, progress_interval, done, num_iterations) ==
    /\ progress_cb # "null" /\ progress_interval # 0
    /\ (done = num_iterations \/ done % progress_interval = 0)

\* lines 128-134: the progress report and the loop increment
Progress(t) ==
    /\ Running
    /\ pc[t] = "L128"
    /\ LET done == fr[t].i + 1
       IN  Step(t, "L119", [fr[t] EXCEPT !.i = @ + 1],
                IF ProgressDue(args[t].progress_cb, args[t].progress_interval, done,
                               args[t].num_iterations)
                THEN <<Ev("progress_cb", done)>> ELSE <<>>)
    /\ UNCHANGED <<Globals, Diagnostics, args, got, result>>

\* lines 136-144: the proof
Prove(t) ==
    /\ Running
    /\ pc[t] = "L136"
    /\ Step(t, "L146",
            [fr[t] EXCEPT !.proof = GenerateWesolowski(fr[t].y, fr[t].x, fr[t].D,
                                        fr[t].intermediates, args[t].num_iterations,
                                        fr[t].k, fr[t].l)],
            <<Ev("GenerateWesolowski", 0)>>)
    /\ UNCHANGED <<Globals, Diagnostics, args, got, result>>

\* lines 146-150: the two encodings
Serialize(t) ==
    /\ Running
    /\ pc[t] = "L146"
    /\ LET ys == SerializeForm(fr[t].y, fr[t].d_bits)
           ps == SerializeForm(fr[t].proof, fr[t].d_bits)
           f == [fr[t] EXCEPT !.y_serialized = ys, !.proof_serialized = ps]
       IN  IF ys = <<>> \/ ps = <<>>
           THEN /\ pc' = [pc EXCEPT ![t] = "returned"]
                /\ result' = [result EXCEPT ![t] = empty_result]
                /\ fr' = [fr EXCEPT ![t] = f]
                /\ events' = [events EXCEPT ![t] = Append(@, Ev("SerializeForm", 0))]
           ELSE /\ Step(t, "L152", f, <<Ev("SerializeForm", 0)>>)
                /\ UNCHANGED result
    /\ UNCHANGED <<Globals, Diagnostics, args, got>>

\* a faulty variant of ReferenceRejected: the lengths are compared, the bytes are not
ReferenceRejectedLengthOnly(y_ref_s, y_ref_s_size, y_serialized) ==
    \/ y_ref_s.null \/ y_ref_s_size = 0
    \/ Len(y_serialized) # y_ref_s_size

\* lines 153-161: whether the reference makes the call fail
ReferenceRejected(y_ref_s, y_ref_s_size, y_serialized) ==
    \/ y_ref_s.null \/ y_ref_s_size = 0
    \/ Len(y_serialized) # y_ref_s_size
    \/ Bytes(y_ref_s, Len(y_serialized)) # y_serialized

\* lines 152-162: the comparison with the reference
CheckReference(t) ==
    /\ Running
    /\ pc[t] = "L152"
    /\ IF args[t].check_y_ref
       THEN IF ReferenceRejected(args[t].y_ref_s, args[t].y_ref_s_size, fr[t].y_serialized)
            THEN ReturnEmpty(t, <<Ev("compare", 0)>>)
            ELSE Step(t, "L164", fr[t], <<Ev("compare", 0)>>) /\ UNCHANGED result
       ELSE Step(t, "L164", fr[t], <<>>) /\ UNCHANGED result
    /\ UNCHANGED <<Globals, Diagnostics, args, got>>

\* a faulty variant of CopyOut: the proof is copied first
CopyOutProofFirst(y_serialized, proof_serialized) ==
    [data |-> Ptr(proof_serialized \o y_serialized),
     length |-> Len(y_serialized) + Len(proof_serialized)]

\* lines 164-168: the output buffer, y first and the proof right after it
CopyOut(y_serialized, proof_serialized) ==
    LET total == Len(y_serialized) + Len(proof_serialized)
    IN  [data |-> Ptr([j \in 1..total |->
                          IF j <= Len(y_serialized)
                          THEN y_serialized[j]
                          ELSE proof_serialized[j - Len(y_serialized)]]),
         length |-> total]

Output(t) ==
    /\ Running
    /\ pc[t] = "L164"
    /\ result' = [result EXCEPT ![t] = CopyOut(fr[t].y_serialized, fr[t].proof_serialized)]
    /\ pc' = [pc EXCEPT ![t] = "returned"]
    /\ events' = [events EXCEPT ![t] = Append(@, Ev("return", result'[t].length))]
    /\ UNCHANGED <<Globals, Diagnostics, args, got, fr>>

\* the source line of the statement a thread at program counter p executes
LineOf(p) ==
    CASE p = "L85" -> 85 [] p = "L89" -> 89 [] p = "L115" -> 116 [] p = "L125" -> 125
      [] p = "L126" -> 126 [] p = "L128" -> 131 [] p = "L136" -> 136 [] p = "L146" -> 146
      [] p = "L164" -> 165 [] OTHER -> 0

\* whether the statement thread t is about to execute is one that can raise
\* an exception: the discriminant, the decoding, the allocation of the
\* store, a squaring, a reduction, an invocation of the callback, the proof,
\* the encodings, the allocation of the output
CanThrow(t) ==
    /\ LineOf(pc[t]) # 0
    /\ pc[t] = "L115" => fr[t].kl # 0
    /\ pc[t] = "L128" => ProgressDue(args[t].progress_cb, args[t].progress_interval,
                                     fr[t].i + 1, args[t].num_iterations)

\* a faulty variant of Caught: the exception leaves the function
Propagated(t, evs) ==
    /\ pc' = [pc EXCEPT ![t] = "unwound"]
    /\ events' = [events EXCEPT ![t] = @ \o evs]
    /\ UNCHANGED <<fr, result>>

\* lines 169-171: catch (...) { return empty_result(); }
Caught(t, evs) == ReturnEmpty(t, evs \o <<Ev("catch", 0)>>)

\* lines 82-171: the statement thread t is at raises an exception
Throw(t) ==
    /\ Running
    /\ CanThrow(t)
    /\ Caught(t, <<Ev("throw", LineOf(pc[t]))>>)
    /\ UNCHANGED <<Globals, Diagnostics, args, got>>

\* line 363: the caller has looked at the result and frees it; the thread
\* is ready for its next call
chiavdf_free_byte_array(t) ==
    /\ Running
    /\ pc[t] = "returned"
    /\ pc' = [pc EXCEPT ![t] = "idle"]
    /\ args' = [args EXCEPT ![t] = NoArgs]
    /\ fr' = [fr EXCEPT ![t] = NoFrame]
    /\ result' = [result EXCEPT ![t] = empty_result]
    /\ events' = [events EXCEPT ![t] = <<>>]
    /\ UNCHANGED <<Globals, Diagnostics, got>>

---------------------------------------------------------------------------
(* The configuration setters. *)

\* whether thread t is outside the proving function, free to call a setter
Outside(t) == pc[t] \in {"idle", "returned"}

\* lines 175-177
chiavdf_set_bucket_memory_budget_bytes(t, bytes) ==
    /\ Running
    /\ Outside(t)
    /\ bucket_memory_budget_bytes' = bytes
    /\ UNCHANGED <<tuner, build, init_once, gmp_initialised, fe_round,
                   streaming_stats_enabled, crashed, Diagnostics, pc, args, got, fr, result, events>>

\* lines 179-182
chiavdf_set_enable_streaming_stats(t, enable) ==
    /\ Running
    /\ Outside(t)
    /\ streaming_stats_enabled' = enable
    /\ last_streaming_stats' = [last_streaming_stats EXCEPT ![t] = LastStreamingStats]
    /\ UNCHANGED <<tuner, build, init_once, gmp_initialised, fe_round,
                   bucket_memory_budget_bytes, crashed, last_streaming_parameters,
                   pc, args, got, fr, result, events>>

\* lines 184-195; each argument is "null" or "cell"
chiavdf_get_last_streaming_parameters(t, out_k, out_l, out_tuned) ==
    /\ Running
    /\ Outside(t)
    /\ got' = [got EXCEPT ![t] =
           IF out_k = "null" \/ out_l = "null" \/ out_tuned = "null"
           THEN [@ EXCEPT !.asked = "null", !.ret = FALSE]
           ELSE IF ~last_streaming_parameters[t].set
                THEN [@ EXCEPT !.asked = "cells", !.ret = FALSE]
                ELSE [asked |-> "cells", ret |-> TRUE,
                      out_k |-> last_streaming_parameters[t].k,
                      out_l |-> last_streaming_parameters[t].l,
                      out_tuned |-> last_streaming_parameters[t].tuned]]
    /\ UNCHANGED <<Globals, Diagnostics, pc, args, fr, result, events>>

---------------------------------------------------------------------------
(* The specification. *)

EntryPoint(t) ==
    \/ chiavdf_prove_one_weso_fast(t)
    \/ chiavdf_prove_one_weso_fast_with_progress(t)
    \/ chiavdf_prove_one_weso_fast_streaming(t)
    \/ chiavdf_prove_one_weso_fast_streaming_with_progress(t)
    \/ chiavdf_prove_one_weso_fast_streaming_getblock_opt(t)
    \/ chiavdf_prove_one_weso_fast_streaming_getblock_opt_with_progress(t)

prove_one_weso_slow(t) ==
    \/ ValidateInput(t)
    \/ CallOnce(t)
    \/ init_chiavdf_runtime(t)
    \/ Discriminant(t)
    \/ FourthRoot(t)
    \/ Deserialize(t)
    \/ CopyInput(t)
    \/ Tune(t)
    \/ RecordPlan(t)
    \/ Allocate(t)
    \/ LoopHead(t)
    \/ Square(t)
    \/ ReduceStep(t)
    \/ Progress(t)
    \/ Prove(t)
    \/ Serialize(t)
    \/ CheckReference(t)
    \/ Output(t)

Next ==
    \/ \E t \in Provers : EntryPoint(t)
    \/ \E t \in Provers : prove_one_weso_slow(t)
    \/ \E t \in Provers : chiavdf_free_byte_array(t)
    \/ \E t \in Threads : \E bytes \in Budgets : chiavdf_set_bucket_memory_budget_bytes(t, bytes)
    \/ \E t \in Threads : \E enable \in BOOLEAN : chiavdf_set_enable_streaming_stats(t, enable)

Spec == Init /\ [][Next]_vars

\* Spec with the scheduling of a thread inside prove_one_weso_slow: it is not
\* suspended forever, and a progress callback it invokes returns
LiveSpec == Spec /\ \A t \in Provers : WF_vars(prove_one_weso_slow(t))

\* the same program in an environment where the library, the allocator and
\* the callback may raise exceptions; the configuration is left alone
FaultNext ==
    \/ \E t \in Provers : EntryPoint(t)
    \/ \E t \in Provers : prove_one_weso_slow(t)
    \/ \E t \in Provers : Throw(t)
    \/ \E t \in Provers : chiavdf_free_byte_array(t)

FaultSpec == Init /\ [][FaultNext]_vars

\* the arguments of the calls that run side by side: T = 1, T = 2 and the
\* rejected T = 0
ConcCores ==
    { c \in ValidCores : c.num_iterations <= 2 }
        \cup { [c EXCEPT !.num_iterations = 0] : c \in { v \in ValidCores : v.num_iterations = 1 } }

\* lines 212-232, called by any thread
ConcurrentCall(t) ==
    /\ pc[t] = "idle"
    /\ \E c \in ConcCores : Enter(t, MkArgs(c, <<NULLPTR, 0>>, FALSE, <<0, "null">>))

\* a tuner whose plan tells the calls apart: k = T, l = 1
ConcInit == Init /\ tuner = [T \in 1..MaxT |-> [k |-> T, l |-> 1]]

\* proving calls on every thread side by side, and callers that ask for the
\* last plan of their thread
ConcNext ==
    \/ \E t \in Threads : ConcurrentCall(t)
    \/ \E t \in Threads : prove_one_weso_slow(t)
    \/ \E t \in Threads : chiavdf_free_byte_array(t)
    \/ \E t \in Threads : \E out_k, out_l, out_tuned \in {"null", "cell"} :
           chiavdf_get_last_streaming_parameters(t, out_k, out_l, out_tuned)

ConcSpec == ConcInit /\ [][ConcNext]_vars

---------------------------------------------------------------------------
(* Vocabulary of the properties. *)

\* the argument fields the result is claimed to depend on
CoreOf(a) ==
    [challenge_hash |-> a.challenge_hash, challenge_size |-> a.challenge_size,
     x_s |-> a.x_s, x_s_size |-> a.x_s_size,
     discriminant_size_bits |-> a.discriminant_size_bits,
     num_iterations |-> a.num_iterations]

\* the input element of a call whose input decodes
InputForm(a) == DeserializeForm(DiscOf(CoreOf(a)), Bytes(a.x_s, a.x_s_size))

HasEvent(t, op) == \E j \in 1..Len(events[t]) : events[t][j].op = op

IsSquaringOp(e) == e.op \in {"nudupl_form", "reduce"}

IsProgressOp(e) == e.op = "progress_cb"

\* the squarings and reductions of the running call, in order
SquaringOps(t) == SelectSeq(events[t], IsSquaringOp)

\* the counts the running call has passed to the progress callback, in order
Reports(t) == [j \in 1..Len(SelectSeq(events[t], IsProgressOp)) |->
                  SelectSeq(events[t], IsProgressOp)[j].n]

\* the positions after the squaring loop has run to its end
PastLoop == {"L136", "L146", "L152", "L164"}

LoopFinished(t) == pc[t] \in PastLoop \/ (pc[t] = "returned" /\ HasEvent(t, "GenerateWesolowski"))

CeilDiv(a, b) == (a + b - 1) \div b

---------------------------------------------------------------------------
(* C1..C3: the squaring loop. *)

\* every checkpoint written so far holds the input squared i*k*l times, each
\* squaring followed by a reduction; checkpoint 0 is the input itself
C1_CheckpointsCorrect ==
    \A t \in Provers : \A i \in 0..(fr[t].cursor - 1) :
        fr[t].intermediates[i + 1] =
            IF i = 0 THEN InputForm(args[t])
            ELSE SquaredTimes(InputForm(args[t]), DiscOf(CoreOf(args[t])), i * fr[t].k * fr[t].l)

\* while the call lasts the cursor does not move back and no written slot changes
C1_NeverOverwritten ==
    \A t \in Provers : \A i \in 0..(fr[t].cursor - 1) :
        pc'[t] # "idle" =>
            /\ fr'[t].cursor >= fr[t].cursor
            /\ fr'[t].intermediates[i + 1] = fr[t].intermediates[i + 1]

\* C1: in every state of the squaring loop and at its end, each checkpoint
\* already written equals the input squared i*k*l times with a reduction after
\* each squaring, checkpoint 0 is the input, and no written checkpoint is
\* overwritten afterwards.
C1_CheckpointInvariant == []C1_CheckpointsCorrect /\ [][C1_NeverOverwritten]_vars

\* a call has returned a proof after writing at least three checkpoints
C1_Witness ==
    \E t \in Provers : pc[t] = "returned" /\ HasEvent(t, "return") /\ fr[t].cursor >= 3

\* C2: when the squaring loop has finished, y is the input squared exactly
\* num_iterations times, every squaring was immediately followed by one
\* reduction (and every reduction immediately preceded by a squaring), and x
\* still is the decoded input.
C2_SquaredExactlyT ==
    \A t \in Provers :
        /\ \A j \in 1..Len(events[t]) :
              /\ (events[t][j].op = "nudupl_form" /\ j < Len(events[t]))
                    => events[t][j + 1].op = "reduce"
              /\ events[t][j].op = "reduce"
                    => (j > 1 /\ events[t][j - 1].op = "nudupl_form")
        /\ pc[t] # "L126" => (events[t] = <<>> \/ events[t][Len(events[t])].op # "nudupl_form")
        /\ LoopFinished(t) =>
              /\ Len(SquaringOps(t)) = 2 * args[t].num_iterations
              /\ fr[t].y = SquaredTimes(InputForm(args[t]), DiscOf(CoreOf(args[t])),
                                        args[t].num_iterations)
              /\ fr[t].y.red
              /\ fr[t].x = InputForm(args[t])

\* the loop of a call with the largest iteration count has finished
C2_Witness ==
    \E t \in Provers : pc[t] = "L136" /\ args[t].num_iterations = MaxT /\ MaxT >= 2

\* C3: the counts passed to the progress callback are strictly increasing;
\* once the loop of a call with a callback and a cadence P > 0 has finished
\* there are ceil(T / P) of them and the last one is T.
C3_MonotonicProgress ==
    \A t \in Provers :
        LET r == Reports(t)
            a == args[t]
        IN  /\ \A j \in 1..(Len(r) - 1) : r[j] < r[j + 1]
            /\ (LoopFinished(t) /\ a.progress_cb # "null" /\ a.progress_interval > 0) =>
                  /\ Len(r) = CeilDiv(a.num_iterations, a.progress_interval)
                  /\ r[Len(r)] = a.num_iterations

\* a loop whose iteration count is no multiple of the cadence has finished
\* after at least two reports
C3_Witness ==
    \E t \in Provers :
        /\ LoopFinished(t) /\ args[t].progress_cb # "null" /\ args[t].progress_interval > 1
        /\ args[t].num_iterations % args[t].progress_interval # 0
        /\ Len(Reports(t)) >= 2

---------------------------------------------------------------------------
(* C4, C5: the comparison with the reference. *)

\* the position of the first event `op` of the running call (0: none)
FirstEvent(t, op) ==
    IF HasEvent(t, op)
    THEN CHOOSE j \in 1..Len(events[t]) :
            events[t][j].op = op /\ \A h \in 1..(j - 1) : events[t][h].op # op
    ELSE 0

\* the reference bytes a caller supplied
SuppliedReference(a) == IF a.y_ref_s.null THEN <<>> ELSE Bytes(a.y_ref_s, a.y_ref_s_size)

\* C4, as claimed: in a call that checks a reference the comparison runs after
\* the squaring loop and before the proof generator, so that a call whose
\* reference mismatches never invokes the proof generator.
C4_ValidationBeforeProof ==
    \A t \in Provers :
        (args[t].check_y_ref /\ HasEvent(t, "GenerateWesolowski")) =>
            /\ HasEvent(t, "compare")
            /\ FirstEvent(t, "compare") < FirstEvent(t, "GenerateWesolowski")

\* C5: a streaming call whose reference differs from the encoding of the
\* computed y, in length or in some byte, returns the empty result.
C5_MismatchReturnsEmpty ==
    \A t \in Provers :
        (/\ pc[t] = "returned" /\ args[t].check_y_ref /\ HasEvent(t, "SerializeForm")
         /\ SuppliedReference(args[t]) # SerializeForm(fr[t].y, fr[t].d_bits))
            => result[t] = empty_result

\* a call has returned whose reference has the right length and differs from
\* the encoding of y in its last byte only
C5_Witness ==
    \E t \in Provers :
        /\ pc[t] = "returned" /\ args[t].check_y_ref /\ HasEvent(t, "compare")
        /\ Len(SuppliedReference(args[t])) = FormSize
        /\ SuppliedReference(args[t]) # SerializeForm(fr[t].y, fr[t].d_bits)
        /\ SubSeq(SuppliedReference(args[t]), 1, FormSize - 1)
              = SubSeq(SerializeForm(fr[t].y, fr[t].d_bits), 1, FormSize - 1)

---------------------------------------------------------------------------
(* C6, C7: rejected inputs. *)

\* C6: a call with a zero iteration count, a zero discriminant size, a null or
\* empty challenge or a null or empty input element returns the empty result
\* and does nothing else: no runtime initialisation, no discriminant, no
\* decoding, no tuning, no squaring, no callback.
C6_InvalidInputRejected ==
    \A t \in Provers :
        LET a == args[t]
        IN  (/\ pc[t] # "idle"
             /\ \/ a.num_iterations = 0 \/ a.discriminant_size_bits = 0
                \/ a.challenge_hash.null \/ a.challenge_size = 0
                \/ a.x_s.null \/ a.x_s_size = 0)
                => /\ pc[t] \in {"L75", "returned"}
                   /\ events[t] = <<>>
                   /\ fr[t] = NoFrame
                   /\ pc[t] = "returned" => result[t] = empty_result

\* a streaming call with a live callback and a zero discriminant size has returned
C6_Witness ==
    \E t \in Provers :
        /\ pc[t] = "returned" /\ args[t].discriminant_size_bits = 0
        /\ args[t].check_y_ref /\ args[t].progress_cb # "null"
        /\ args[t].num_iterations > 0 /\ ~args[t].x_s.null

\* the call passes the argument checks and its input element is no encoding
\* of a group element: wrong size, wrong flag byte or a value out of range
Undecodable(a) ==
    /\ ~a.challenge_hash.null /\ a.challenge_size # 0 /\ ~a.x_s.null /\ a.x_s_size # 0
    /\ a.num_iterations # 0 /\ a.discriminant_size_bits # 0
    /\ LET bytes == Bytes(a.x_s, a.x_s_size)
       IN  \/ Len(bytes) # FormSize
           \/ bytes[1] # 0
           \/ Undigits(Tail(bytes)) < 1
           \/ Undigits(Tail(bytes)) >= Abs(DiscOf(CoreOf(a)))

\* the operations of the running call, the runtime initialisation left out
OpsAfterInit(t) ==
    LET IsNotInit(e) == e.op # "init_chiavdf_runtime"
        evs == SelectSeq(events[t], IsNotInit)
    IN  [j \in 1..Len(evs) |-> evs[j].op]

\* C7, as claimed: a call whose input element does not decode fails before
\* any arithmetic, in particular before the discriminant is created and the
\* fourth root is computed.
C7_FailsBeforeArithmetic ==
    \A t \in Provers :
        Undecodable(args[t]) =>
            /\ ~HasEvent(t, "CreateDiscriminant")
            /\ ~HasEvent(t, "root")
            /\ pc[t] = "returned" => result[t] = empty_result

\* C7, amended: a call whose input element does not decode returns the empty
\* result; it has created the discriminant and computed the fourth root (the
\* decoder needs the discriminant) and fails at the decoding, before tuning,
\* checkpoint allocation, squaring, progress callback, proof or encoding.
C7_FailsAtDecoding ==
    \A t \in Provers :
        Undecodable(args[t]) =>
            /\ pc[t] \in {"idle", "L75", "L83", "L58", "L85", "L87", "L89", "returned"}
            /\ pc[t] = "returned" =>
                  /\ result[t] = empty_result
                  /\ OpsAfterInit(t) = <<"CreateDiscriminant", "root", "DeserializeForm", "catch">>

\* a call given a well-sized encoding of a value outside the group has returned
C7_Witness ==
    \E t \in Provers :
        /\ pc[t] = "returned" /\ Undecodable(args[t]) /\ HasEvent(t, "catch")
        /\ args[t].x_s_size = FormSize

---------------------------------------------------------------------------
(* C8: determinism. *)

\* whether a call's input element is the encoding of a group element
ElementEncoded(c) ==
    LET bytes == Bytes(c.x_s, c.x_s_size)
    IN  /\ Len(bytes) = FormSize /\ bytes[1] = 0
        /\ Undigits(Tail(bytes)) >= 1 /\ Undigits(Tail(bytes)) < Abs(DiscOf(c))

\* the one output the calls with the core arguments c (challenge, input
\* element, iteration count, discriminant size) can return: a function of c
\* alone, for the tuner and the build of the process
OutputOf(c) ==
    IF ~InputsPresent(c) \/ ~ElementEncoded(c)
    THEN empty_result
    ELSE LET D == DiscOf(c)
             x == [cls |-> Undigits(Tail(Bytes(c.x_s, c.x_s_size))), red |-> TRUE]
             T == c.num_iterations
             k == IF tuner[T].k >= 1 THEN tuner[T].k ELSE 1
             l == IF tuner[T].l >= 1 THEN tuner[T].l ELSE 1
             kl == Mul32(k, l)
         IN  IF kl <= 0 /\ ~(MulOverflows(k, l) /\ build.elide_kl_check)
             THEN empty_result
             ELSE LET checkpoints == [j \in 1..SizeVec(T, kl) |-> SquaredTimes(x, D, (j - 1) * kl)]
                      y == SquaredTimes(x, D, T)
                      proof == GenerateWesolowski(y, x, D, checkpoints, T, k, l)
                  IN  [data |-> Ptr(SerializeForm(y, NumBits(D)) \o SerializeForm(proof, NumBits(D))),
                       length |-> 2 * FormSize]

\* the call checks no reference, or the reference it was given is the
\* encoding of the input squared num_iterations times
NoOrCorrectReference(a) ==
    \/ ~a.check_y_ref
    \/ /\ InputsPresent(CoreOf(a)) /\ ElementEncoded(CoreOf(a))
       /\ SuppliedReference(a) = SerializeForm(SquaredTimes(InputForm(a), DiscOf(CoreOf(a)),
                                                            a.num_iterations),
                                               a.discriminant_size_bits)

\* C8: what a call returns is a function of (challenge, input element, T,
\* discriminant size) alone: any two calls that agree on these return the same
\* bytes, whatever their progress cadence and callback, whatever the memory
\* budget and the stats flag hold, and whichever entry point they came through
\* (a streaming one being given the correct reference).
C8_Deterministic ==
    \A t \in Provers :
        (pc[t] = "returned" /\ NoOrCorrectReference(args[t]))
            => result[t] = OutputOf(CoreOf(args[t]))

\* a streaming call with a live callback has returned a proof while a memory
\* budget was set and the stats were enabled
C8_Witness ==
    \E t \in Provers :
        /\ pc[t] = "returned" /\ HasEvent(t, "return")
        /\ args[t].check_y_ref /\ Len(Reports(t)) >= 2
        /\ bucket_memory_budget_bytes > 0 /\ streaming_stats_enabled

---------------------------------------------------------------------------
(* C9: the layout of the result. *)

\* C9: a call that ends in Done returns a non-null buffer holding the encoding
\* of y immediately followed by the encoding of the proof, of exactly their
\* added lengths, which is positive; a result of length 0 has a null pointer.
C9_OutputLayout ==
    \A t \in Provers :
        /\ result[t].length = 0 => result[t].data.null
        /\ (pc[t] = "returned" /\ HasEvent(t, "return")) =>
              LET ys == SerializeForm(fr[t].y, fr[t].d_bits)
                  ps == SerializeForm(fr[t].proof, fr[t].d_bits)
              IN  /\ ~result[t].data.null
                  /\ result[t].length = Len(ys) + Len(ps)
                  /\ result[t].length > 0
                  /\ Len(result[t].data.buf) = result[t].length
                  /\ SubSeq(result[t].data.buf, 1, Len(ys)) = ys
                  /\ SubSeq(result[t].data.buf, Len(ys) + 1, result[t].length) = ps

\* a call has returned a proof whose encoding differs from that of y
C9_Witness ==
    \E t \in Provers :
        /\ pc[t] = "returned" /\ HasEvent(t, "return")
        /\ SerializeForm(fr[t].y, fr[t].d_bits) # SerializeForm(fr[t].proof, fr[t].d_bits)

---------------------------------------------------------------------------
(* C10: the iteration plan. *)

\* the call has been through the tuner and the clamps
Tuned(t) == HasEvent(t, "ApproximateParameters")

\* the call has allocated its checkpoint store: the plan is in use
PlanInUse(t) == HasEvent(t, "allocate")

\* C10, as claimed: the plan the loop and the proof generator run with has
\* k >= 1, l >= 1 and k * l <= T.
C10_PlanWithinT ==
    \A t \in Provers :
        PlanInUse(t) =>
            /\ fr[t].k >= 1 /\ fr[t].l >= 1
            /\ ~MulOverflows(fr[t].k, fr[t].l)
            /\ fr[t].k * fr[t].l <= args[t].num_iterations

C10_PlanPositive == \A t \in Provers : Tuned(t) => (fr[t].k >= 1 /\ fr[t].l >= 1)

C10_PlanUnchanged ==
    \A t \in Provers :
        (Tuned(t) /\ pc'[t] # "idle") => (fr'[t].k = fr[t].k /\ fr'[t].l = fr[t].l)

\* C10, amended: after the tuner and the clamps k >= 1 and l >= 1, and neither
\* changes until the call ends; k * l is not bounded by T.
C10_PlanClampedAndFixed == []C10_PlanPositive /\ [][C10_PlanUnchanged]_vars

\* the loop has run to its end under a plan that came out of a clamp and whose
\* product exceeds the iteration count
C10_Witness ==
    \E t \in Provers :
        /\ pc[t] = "L136"
        /\ tuner[args[t].num_iterations].l <= 0 /\ fr[t].l = 1
        /\ fr[t].k * fr[t].l > args[t].num_iterations

---------------------------------------------------------------------------
(* C11 *)

\* the last thing the call of thread t did
LastOp(t) == events[t][Len(events[t])].op

\* C11: an exception raised inside the proving operation after the argument
\* checks (by the discriminant, the decoding, the allocation of the store, a
\* squaring, a reduction, the callback, the proof or the encodings) is caught
\* and the call returns the empty result: the exception never leaves the
\* function, no step of the operation follows it and no output is returned.
C11_ExceptionsCaught ==
    \A t \in Provers :
        /\ pc[t] # "unwound"
        /\ (HasEvent(t, "throw") \/ HasEvent(t, "catch")) =>
              /\ pc[t] = "returned"
              /\ result[t] = empty_result
              /\ LastOp(t) = "catch"

\* the callback has raised an exception in the middle of the loop, after
\* checkpoints were written, and the call has returned
C11_Witness ==
    \E t \in Provers :
        /\ pc[t] = "returned"
        /\ \E j \in 1..Len(events[t]) : events[t][j] = Ev("throw", 131)
        /\ fr[t].cursor >= 1 /\ fr[t].i < args[t].num_iterations - 1

---------------------------------------------------------------------------
(* C12 *)

\* whether d is a positive multiple of P
MultipleOf(d, P) == \E m \in 1..d : m * P = d

\* the counts a call with arguments a has to report once n iterations are over
ReportsDue(a, n) ==
    LET Due(d) == /\ a.progress_cb = "cb" /\ a.progress_interval > 0
                  /\ (d = a.num_iterations \/ MultipleOf(d, a.progress_interval))
    IN  SelectSeq([d \in 1..n |-> d], Due)

\* C12: after the squaring with index i the callback is invoked exactly once,
\* with i + 1, if and only if a callback is supplied, P > 0 and i + 1 is T or
\* a multiple of P: at every moment the reports made so far are exactly the
\* due counts among the finished iterations (none at all with P = 0 or
\* without a callback), and every report directly follows the reduction that
\* completes its squaring.
C12_ProgressCadence ==
    \A t \in Provers :
        /\ Reports(t) = ReportsDue(args[t], fr[t].i)
        /\ \A j \in 1..Len(events[t]) :
              events[t][j].op = "progress_cb" =>
                  /\ j > 2
                  /\ events[t][j - 1] = Ev("reduce", events[t][j].n - 1)
                  /\ events[t][j - 2] = Ev("nudupl_form", events[t][j].n - 1)

\* a call with T = 3 and P = 2 has finished: it reported 2 and 3, but not 1
C12_Witness ==
    \E t \in Provers :
        /\ pc[t] = "returned" /\ result[t] # empty_result
        /\ args[t].progress_cb = "cb" /\ args[t].progress_interval = 2
        /\ args[t].num_iterations = 3
        /\ Reports(t) = <<2, 3>>

---------------------------------------------------------------------------
(* C13 *)

\* the call of thread t got past tuning: it is at or after line 115
PastTuning(t) ==
    \/ pc[t] \in {"L115", "L119", "L125", "L126", "L128"} \cup PastLoop
    \/ pc[t] = "returned" /\ HasEvent(t, "allocate")

\* the call of thread t has returned from before line 109
BeforeTuning(t) == pc[t] = "returned" /\ ~HasEvent(t, "allocate")

\* what the caller on thread t holds after asking, with three cells, for the
\* last plan when that plan is (k, l)
GotPlan(k, l) == [asked |-> "cells", ret |-> TRUE, out_k |-> k, out_l |-> l, out_tuned |-> FALSE]

\* C13, in every state: the diagnostics of a thread whose call got past
\* tuning hold the plan of that call, with tuned = false, during the call and
\* after it, whatever the other threads do; a caller that asks after such a
\* call has got true and that plan; a caller that asks with a null pointer,
\* or on a thread where no call ever got past tuning, has got false.
C13_OwnPlanReported ==
    \A t \in Threads :
        /\ PastTuning(t) =>
              last_streaming_parameters[t] =
                  [k |-> fr[t].k, l |-> fr[t].l, tuned |-> FALSE, set |-> TRUE]
        /\ (PastTuning(t) /\ got[t].asked = "cells") => got[t] = GotPlan(fr[t].k, fr[t].l)
        /\ got[t].asked = "null" => ~got[t].ret
        /\ (got[t].asked = "cells" /\ ~last_streaming_parameters[t].set) => ~got[t].ret
        /\ got[t].ret => got[t] = GotPlan(last_streaming_parameters[t].k,
                                          last_streaming_parameters[t].l)

\* C13, in every step: an answer of false leaves the three cells as they were
C13_FalseWritesNothing ==
    \A t \in Threads :
        (got'[t] # got[t] /\ ~got'[t].ret /\ got'[t].asked # "no") =>
            /\ got'[t].out_k = got[t].out_k
            /\ got'[t].out_l = got[t].out_l
            /\ got'[t].out_tuned = got[t].out_tuned

\* C13: the last-plan diagnostics are the calling thread's own
C13_LastPlanDiagnostics == []C13_OwnPlanReported /\ [][C13_FalseWritesNothing]_vars

\* the first thread has finished a call with plan (2, 1) and has been told
\* so, while the second thread has just recorded the plan (1, 1) of its call
C13_Witness ==
    /\ pc[1] = "returned" /\ PastTuning(1) /\ got[1] = GotPlan(2, 1)
    /\ pc[2] = "L115" /\ fr[2].k = 1
    /\ last_streaming_parameters[2].k = 1

---------------------------------------------------------------------------
(* C14 *)

\* the call of thread t is in flight
InFlight(t) == pc[t] \notin {"idle", "returned"}

\* C14, in every state: the plan of an operation, the size of its checkpoint
\* store and the number of checkpoints it has written are what its iteration
\* count and the tuner give, whatever the budget and the stats flag hold at
\* that moment.
C14_PlanFromArgumentsOnly ==
    \A t \in Provers :
        LET T == args[t].num_iterations
        IN  /\ Tuned(t) =>
                  /\ fr[t].k = (IF tuner[T].k >= 1 THEN tuner[T].k ELSE 1)
                  /\ fr[t].l = (IF tuner[T].l >= 1 THEN tuner[T].l ELSE 1)
            /\ (PlanInUse(t) /\ fr[t].kl >= 1) =>
                  /\ fr[t].size_vec = CeilDiv(T, fr[t].kl)
                  /\ fr[t].cursor =
                        CeilDiv(IF pc[t] \in {"L125", "L126", "L128"} THEN fr[t].i + 1 ELSE fr[t].i,
                                fr[t].kl)

\* C14, in every step: a change of the budget or of the stats flag leaves
\* every operation where it is: position, arguments, plan, checkpoints,
\* progress reports, output and last-plan diagnostics.
C14_SettersLeaveOperations ==
    (bucket_memory_budget_bytes' # bucket_memory_budget_bytes
        \/ streaming_stats_enabled' # streaming_stats_enabled)
    => UNCHANGED <<pc, args, fr, result, events, last_streaming_parameters>>

\* C14: a setter called while an operation is in flight does not change it
C14_ConfigurationIgnoredInFlight ==
    []C14_PlanFromArgumentsOnly /\ [][C14_SettersLeaveOperations]_vars

\* an operation with T = 3 is in the middle of its loop under the plan (2, 2)
\* of the tuner, with its one checkpoint written, while the budget is set and
\* the stats are enabled
C14_Witness ==
    \E t \in Provers :
        /\ pc[t] = "L126" /\ fr[t].i = 2 /\ args[t].num_iterations = 3
        /\ fr[t].k = 2 /\ fr[t].l = 2 /\ fr[t].cursor = 1
        /\ args[t].progress_cb = "cb"
        /\ bucket_memory_budget_bytes = 1 /\ streaming_stats_enabled

---------------------------------------------------------------------------
(* C15 *)

\* the call supplies no reference output: a null pointer or a zero length
NoReference(a) == a.y_ref_s.null \/ a.y_ref_s_size = 0

\* C15, as claimed: a call that supplies no reference, through any entry
\* point, performs no comparison and does not fail on account of the
\* reference: once its two encodings are made it goes on to return them.
C15_NoReferenceNoValidation ==
    \A t \in Provers :
        NoReference(args[t]) =>
            /\ ~HasEvent(t, "compare")
            /\ (pc[t] = "returned" /\ fr[t].y_serialized # <<>> /\ fr[t].proof_serialized # <<>>)
                  => result[t] # empty_result

---------------------------------------------------------------------------
(* C16 *)

IsCheckpointOp(e) == e.op = "checkpoint"

\* the slots the call of thread t has written, in the order of the writes
SlotsWritten(t) ==
    [j \in 1..Len(SelectSeq(events[t], IsCheckpointOp)) |->
        SelectSeq(events[t], IsCheckpointOp)[j].n]

\* C16: under a plan whose product kl (the int of line 104) is at least 1,
\* the loop writes the slots 0, 1, 2, ... in this order, each once; the
\* cursor equals the number of writes and never passes the end of the store
\* of ceil(T / kl) entries (no write lands outside it); when the loop is over
\* exactly ceil(T / kl) slots are written, a single one, slot 0, for T = 1.
C16_CheckpointStoreBounds ==
    \A t \in Provers :
        (PlanInUse(t) /\ fr[t].kl >= 1) =>
            LET T == args[t].num_iterations
                n == CeilDiv(T, fr[t].kl)
            IN  /\ crashed # "wild write"
                /\ Len(fr[t].intermediates) = n
                /\ SlotsWritten(t) = [j \in 1..fr[t].cursor |-> j - 1]
                /\ fr[t].cursor <= n
                /\ LoopFinished(t) => fr[t].cursor = n
                /\ (LoopFinished(t) /\ T = 1) => SlotsWritten(t) = <<0>>

\* the loop of a call with T = 3 and kl = 2 is over: the store has two
\* entries and the slots 0 and 1 were written
C16_Witness ==
    \E t \in Provers :
        /\ LoopFinished(t) /\ args[t].num_iterations = 3 /\ fr[t].kl = 2
        /\ SlotsWritten(t) = <<0, 1>> /\ fr[t].size_vec = 2

---------------------------------------------------------------------------
(* C17 *)

---------------------------------------------------------------------------
(* C18 *)

\* the position of the first event of the call of thread t with operation
\* op, 0 when there is none
FirstAt(t, op) ==
    IF HasEvent(t, op)
    THEN CHOOSE j \in 1..Len(events[t]) :
            /\ events[t][j].op = op
            /\ \A h \in 1..(j - 1) : events[t][h].op # op
    ELSE 0

\* the position of the last event of the call of thread t with operation op,
\* 0 when there is none
LastAt(t, op) ==
    IF HasEvent(t, op)
    THEN CHOOSE j \in 1..Len(events[t]) :
            /\ events[t][j].op = op
            /\ \A h \in (j + 1)..Len(events[t]) : events[t][h].op # op
    ELSE 0

\* a and b both happened => a happened before b
Before(a, b) == (a # 0 /\ b # 0) => a < b

\* C18, the order of the stages: tuning, then squaring, then the proof, then
\* the encodings, and a stage is entered only after the one before it
C18_StagesInOrder ==
    \A t \in Provers :
        /\ Before(FirstAt(t, "ApproximateParameters"), FirstAt(t, "nudupl_form"))
        /\ Before(LastAt(t, "reduce"), FirstAt(t, "GenerateWesolowski"))
        /\ Before(LastAt(t, "progress_cb"), FirstAt(t, "GenerateWesolowski"))
        /\ Before(FirstAt(t, "GenerateWesolowski"), FirstAt(t, "SerializeForm"))
        /\ HasEvent(t, "nudupl_form") => Tuned(t)
        /\ HasEvent(t, "GenerateWesolowski") => HasEvent(t, "nudupl_form")
        /\ HasEvent(t, "SerializeForm") => HasEvent(t, "GenerateWesolowski")
        /\ (pc[t] = "returned" /\ result[t] # empty_result) => HasEvent(t, "SerializeForm")

\* C18, once terminal: nothing more is squared, written or reported; the
\* result stands until the caller frees it
C18_TerminalIsFinal ==
    \A t \in Provers :
        (pc[t] = "returned" /\ pc'[t] # "idle") =>
            /\ pc'[t] = "returned"
            /\ UNCHANGED <<events[t], fr[t], result[t]>>

---------------------------------------------------------------------------
(* C19 *)

\* the call of thread t was rejected by the argument checks of lines 75-80
Rejected(t) == pc[t] = "returned" /\ events[t] = <<>>

\* C19, in every step: the step in which the argument checks reject a call
\* returns the empty result and leaves the last-plan and last-stats
\* diagnostics, the budget and the stats flag as they were.
C19_RejectionFrame ==
    \A t \in Threads :
        (pc[t] = "L75" /\ pc'[t] = "returned") =>
            /\ result'[t] = empty_result
            /\ UNCHANGED <<last_streaming_parameters, last_streaming_stats,
                           bucket_memory_budget_bytes, streaming_stats_enabled>>

\* C19, in every state: a caller that asks after a rejected call is told
\* what the diagnostics of its thread held before that call: the plan of the
\* last call that got past tuning, or false when there was none.
C19_ReportAfterRejection ==
    \A t \in Threads :
        (Rejected(t) /\ got[t].asked = "cells") =>
            IF last_streaming_parameters[t].set
            THEN got[t] = GotPlan(last_streaming_parameters[t].k, last_streaming_parameters[t].l)
            ELSE ~got[t].ret

\* C19: a rejected call changes neither diagnostics nor configuration
C19_RejectedCallFrame == []C19_ReportAfterRejection /\ [][C19_RejectionFrame]_vars

\* after a call with plan (2, 1) a call with T = 0 was rejected on the same
\* thread, and the caller that asked afterwards was told (2, 1)
C19_Witness ==
    \E t \in Threads :
        /\ Rejected(t) /\ args[t].num_iterations = 0
        /\ got[t] = GotPlan(2, 1)

---------------------------------------------------------------------------
(* C20 *)

\* thread t is inside init_chiavdf_runtime
Initialising(t) == pc[t] = "L58"

\* the call of thread t is at or after its first arithmetic step (line 85)
AtArithmetic(t) == InFlight(t) /\ pc[t] \notin {"L75", "L83", "L58"}

\* C20, as claimed, in every state: at most one thread is inside
\* init_chiavdf_runtime and none once it is done; an operation at or after
\* its first arithmetic step finds the initialisation complete, and its
\* effects (GMP initialised, rounding toward zero) in force on its own thread.
C20_InitialisedWhereUsed ==
    /\ Cardinality({t \in Threads : Initialising(t)}) <= 1
    /\ init_once = "done" => \A t \in Threads : ~Initialising(t)
    /\ \A t \in Threads :
          AtArithmetic(t) =>
              /\ init_once = "done"
              /\ gmp_initialised
              /\ fe_round[t] = "FE_TOWARDZERO"

\* C20, as claimed, in every step: init_chiavdf_runtime is entered only
\* while the once flag is fresh, and the flag never leaves "done"
C20_AtMostOnce ==
    /\ (\E t \in Threads : ~Initialising(t) /\ Initialising(t)') => init_once = "fresh"
    /\ init_once = "done" => init_once' = "done"

\* C20, as claimed: the runtime is initialised once, before any arithmetic,
\* for every thread that does arithmetic.
C20_RuntimeInitialised == []C20_InitialisedWhereUsed /\ [][C20_AtMostOnce]_vars

====
